---- MODULE Spec2Model ----
(***************************************************************************)
(* Best-response dynamics for two-player matrix games, modelled from       *)
(* GameTheoryalgorithms.py: best_response, calculate_nash_equilibrium and  *)
(* the main harness.                                                       *)
(*                                                                         *)
(* Reals are fixed-point integers: Unit stands for 1.0.  Unit is a         *)
(* multiple of 1/tolerance (10^6), of 1/rtol (10^5) and of every action    *)
(* count the model uses, so 1/n, 1e-6 and rtol*|b| are all exact.  Payoffs *)
(* are integers, so every expected payoff is an exact integer number of    *)
(* units.  Vectors are sequences; index i of the code is position i+1.     *)
(***************************************************************************)
EXTENDS Integers, Sequences, FiniteSets

\* ---------------------------------------------------------------- bounds
MaxPayoff == 1
MaxIter == 3

\* -------------------------------------------------------------- constants
Unit == 6 * 1000000
DefaultMaxIterations == 1000
DefaultTolerance == Unit \div 1000000
RtolDen == 100000

\* ------------------------------------------------------- inputs of a run
ActionCounts == 1..2
Payoffs == 0..MaxPayoff

Matrices(r, c) == [1..r -> [1..c -> Payoffs]]

AllMatrices == UNION {Matrices(r, c) : r \in ActionCounts, c \in ActionCounts}

\* The example of main: player A's and player B's payoffs.
PD_A == <<(<<3, 0>>), (<<5, 1>>)>>
PD_B == <<(<<3, 5>>), (<<0, 1>>)>>

\* Matching pennies, a zero-sum game without a pure equilibrium.
MP_A == <<(<<1, -1>>), (<<-1, 1>>)>>
MP_B == <<(<<-1, 1>>), (<<1, -1>>)>>

\* Rock-paper-scissors, three actions per player.
RPS_A == <<(<<0, -1, 1>>), (<<1, 0, -1>>), (<<-1, 1, 0>>)>>
RPS_B == <<(<<0, -1, 1>>), (<<1, 0, -1>>), (<<-1, 1, 0>>)>>

\* Three actions with a three-way tie against the uniform strategy.
TIE_A == <<(<<1, 1, 1>>), (<<3, 0, 0>>), (<<0, 0, 3>>)>>
TIE_B == <<(<<0, 2, 0>>), (<<1, 0, 2>>), (<<1, 2, 0>>)>>

\* The last pair is the shape-mismatch scenario: shapes 2x2 and 3x3.
NamedGames ==
    {<<PD_A, PD_B>>, <<MP_A, MP_B>>, <<RPS_A, RPS_B>>, <<TIE_A, TIE_B>>, <<PD_A, RPS_B>>}

Games == (AllMatrices \X AllMatrices) \cup NamedGames

\* main is run on the named games and on an all-zero matrix pair of every shape.
ZeroMatrix(r, c) == [i \in 1..r |-> [j \in 1..c |-> 0]]

ZeroMatrices == {ZeroMatrix(r, c) : r \in ActionCounts, c \in ActionCounts}

HarnessGames == (ZeroMatrices \X ZeroMatrices) \cup NamedGames

\* 0, 1e-6, just below 1/2, 1/2, and 2/3 - 5e-6
Tolerances ==
    {0, DefaultTolerance, Unit \div 2 - 1, Unit \div 2, (2 * Unit) \div 3 - 30}

\* ------------------------------------------------------ numeric helpers
Abs(x) == IF x < 0 THEN -x ELSE x

Shape(m) == <<Len(m), Len(m[1])>>

RECURSIVE DotFrom(_, _, _)
DotFrom(row, v, j) ==
    IF j > Len(row) THEN 0 ELSE row[j] * v[j] + DotFrom(row, v, j + 1)

\* payoff_matrix @ strategy
MatVec(m, v) == [i \in 1..Len(m) |-> DotFrom(m[i], v, 1)]

\* np.argmax: scan left to right, a later entry wins only if strictly larger.
RECURSIVE ArgMaxScan(_, _, _)
ArgMaxScan(v, i, best) ==
    IF i > Len(v) THEN best
    ELSE ArgMaxScan(v, i + 1, IF v[i] > v[best] THEN i ELSE best)

ArgMaxLast(v) ==
    CHOOSE i \in 1..Len(v) :
        /\ \A j \in 1..Len(v) : v[j] <= v[i]
        /\ \A j \in (i + 1)..Len(v) : v[j] < v[i]

ArgMax(v) == ArgMaxScan(v, 1, 1)

UniformNoDivide(n) == [i \in 1..n |-> Unit]

Uniform(n) == [i \in 1..n |-> Unit \div n]

OneHotNoReset(n, idx) == [i \in 1..n |-> IF i = idx + 1 THEN Unit ELSE Unit \div n]

OneHot(n, idx) == [i \in 1..n |-> IF i = idx + 1 THEN Unit ELSE 0]

AllCloseStrict(a, b, atol) == \A i \in 1..Len(a) : Abs(a[i] - b[i]) < atol

AllCloseAny(a, b, atol) ==
    \E i \in 1..Len(a) : Abs(a[i] - b[i]) <= atol + Abs(b[i]) \div RtolDen

\* np.allclose(a, b, atol=atol) with numpy's default rtol = 1e-5.
AllClose(a, b, atol) ==
    \A i \in 1..Len(a) : Abs(a[i] - b[i]) <= atol + Abs(b[i]) \div RtolDen

\* ---------------------------------------------------------- best_response
\* The matrix product raises ValueError unless the strategy has one entry per column.
BestResponseFails(strategy, payoff_matrix) == Len(payoff_matrix[1]) # Len(strategy)

best_response(strategy, payoff_matrix) == ArgMax(MatVec(payoff_matrix, strategy)) - 1

\* ------------------------------------------------------------------ state
VARIABLES
    caller,            \* "main": the harness; "direct": a call of calculate_nash_equilibrium
    payoff_matrix_a,
    payoff_matrix_b,
    max_iterations,
    tolerance,
    pc,                \* Start, Initialized, Iterating, Converged, Exhausted, Failed, Rejected
    strategy_a,
    strategy_b,
    prev_strategy_a,
    prev_strategy_b,
    best_a,
    best_b,
    rounds,            \* loop bodies started so far
    result,            \* the returned pair, <<>> until the return
    error,             \* the ValueError raised, "none" if none
    propagated,        \* the error left the entry point uncaught
    output,            \* the lines main has printed
    steps              \* history: the steps taken since the entry point was called

vars == <<caller, payoff_matrix_a, payoff_matrix_b, max_iterations, tolerance, pc,
          strategy_a, strategy_b, prev_strategy_a, prev_strategy_b, best_a, best_b,
          rounds, result, error, propagated, output, steps>>

inputs == <<caller, payoff_matrix_a, payoff_matrix_b, max_iterations, tolerance>>

NoIndex == 0 - 1

Line(text, value) == [text |-> text, value |-> value]

ShapeMessage == Line("Error: Payoff matrices must have the same dimensions.", <<>>)
MatmulMessage == Line("Error: matmul: mismatch in core dimension", <<>>)

Init ==
    /\ caller \in {"main", "direct"}
    /\ \E g \in (IF caller = "main" THEN HarnessGames ELSE Games) :
          payoff_matrix_a = g[1] /\ payoff_matrix_b = g[2]
    /\ IF caller = "main"
       THEN max_iterations = DefaultMaxIterations /\ tolerance = DefaultTolerance
       ELSE max_iterations \in 0..MaxIter /\ tolerance \in Tolerances
    /\ pc = "Start"
    /\ strategy_a = <<>>
    /\ strategy_b = <<>>
    /\ prev_strategy_a = <<>>
    /\ prev_strategy_b = <<>>
    /\ best_a = NoIndex
    /\ best_b = NoIndex
    /\ rounds = 0
    /\ result = <<>>
    /\ error = "none"
    /\ propagated = FALSE
    /\ output = <<>>
    /\ steps = 0

\* ------------------------------------------------------------------- main
ShapesDifferRowsOnly(a, b) == Len(a) # Len(b)

ShapesDiffer(a, b) == Shape(a) # Shape(b)

\* main: the shapes differ, ValueError is raised, caught and printed.
MainReject ==
    /\ pc = "Start"
    /\ caller = "main"
    /\ ShapesDiffer(payoff_matrix_a, payoff_matrix_b)
    /\ pc' = "Rejected"
    /\ error' = "ShapeMismatch"
    /\ output' = <<ShapeMessage>>
    /\ steps' = steps + 1
    /\ UNCHANGED <<inputs, strategy_a, strategy_b, prev_strategy_a, prev_strategy_b,
                   best_a, best_b, rounds, result, propagated>>

\* ------------------------------------------------- calculate_nash_equilibrium
\* Entry: main after its validation, or a direct call.  Both strategies start uniform.
CanCall ==
    /\ pc = "Start"
    /\ caller = "main" => ~ShapesDiffer(payoff_matrix_a, payoff_matrix_b)

Call ==
    /\ CanCall
    /\ strategy_a' = Uniform(Len(payoff_matrix_a))
    /\ strategy_b' = Uniform(Len(payoff_matrix_b))
    /\ pc' = "Initialized"
    /\ steps' = steps + 1
    /\ UNCHANGED <<inputs, prev_strategy_a, prev_strategy_b, best_a, best_b, rounds,
                   result, error, propagated, output>>

\* The response B computes in a round is to the strategy A has just taken.
ResponseInputSimultaneous(prev_a, new_a) == prev_a

ResponseInput(prev_a, new_a) == new_a

\* The loop body with the two responses in the other order.
RoundBodyBFirst(sa, sb, a, b) ==
    IF BestResponseFails(sa, b)
    THEN [failed_at |-> 1, strategy_a |-> sa, strategy_b |-> sb,
          best_a |-> NoIndex, best_b |-> NoIndex]
    ELSE LET bb == best_response(sa, b)
             nb == OneHot(Len(b), bb)
         IN  IF BestResponseFails(nb, a)
             THEN [failed_at |-> 2, strategy_a |-> sa, strategy_b |-> nb,
                   best_a |-> NoIndex, best_b |-> bb]
             ELSE LET ba == best_response(nb, a)
                  IN  [failed_at |-> 0, strategy_a |-> OneHot(Len(a), ba),
                       strategy_b |-> nb, best_a |-> ba, best_b |-> bb]

\* One loop body: snapshot, A's response, B's response.  failed_at is 0 if both
\* products are defined, 1 if A's raises, 2 if B's raises.
RoundBody(sa, sb, a, b) ==
    IF BestResponseFails(sb, a)
    THEN [failed_at |-> 1, strategy_a |-> sa, strategy_b |-> sb,
          best_a |-> NoIndex, best_b |-> NoIndex]
    ELSE LET ba == best_response(sb, a)
             na == OneHot(Len(a), ba)
             arg == ResponseInput(sa, na)
         IN  IF BestResponseFails(arg, b)
             THEN [failed_at |-> 2, strategy_a |-> na, strategy_b |-> sb,
                   best_a |-> ba, best_b |-> NoIndex]
             ELSE LET bb == best_response(arg, b)
                  IN  [failed_at |-> 0, strategy_a |-> na,
                       strategy_b |-> OneHot(Len(b), bb),
                       best_a |-> ba, best_b |-> bb]

\* The snapshot of a strategy is the copy taken before the round updates it.
SnapshotAfterUpdate(old, new) == new

Snapshot(old, new) == old

\* for _ in range(max_iterations): another round runs while fewer than the budget have.
LoopContinuesOffByOne(done, budget) == done <= budget

LoopContinuesShort(done, budget) == done < budget - 1

LoopContinues(done, budget) == done < budget

ConvergesEither(pa, pb, sa, sb, tol) == AllClose(pa, sa, tol) \/ AllClose(pb, sb, tol)

Converges(pa, pb, sa, sb, tol) == AllClose(pa, sa, tol) /\ AllClose(pb, sb, tol)

\* The loop body has no try/except: an error of either product leaves the loop.
RaisesOnlyFirst(failed_at) == failed_at = 1

Raises(failed_at) == failed_at # 0

\* calculate_nash_equilibrium as a function of its arguments: how the loop ends,
\* the rounds it ran and the pair it returns (none if the dimension error is raised).
RECURSIVE Iterate(_, _, _, _, _, _, _)
Iterate(sa, sb, a, b, done, budget, tol) ==
    IF ~LoopContinues(done, budget)
    THEN [exit |-> "Exhausted", rounds |-> done, result |-> <<sa, sb>>]
    ELSE LET r == RoundBody(sa, sb, a, b)
         IN  IF Raises(r.failed_at)
             THEN [exit |-> "Failed", rounds |-> done + 1, result |-> <<>>]
             ELSE IF Converges(Snapshot(sa, r.strategy_a), Snapshot(sb, r.strategy_b),
                               r.strategy_a, r.strategy_b, tol)
                  THEN [exit |-> "Converged", rounds |-> done + 1,
                        result |-> <<r.strategy_a, r.strategy_b>>]
                  ELSE Iterate(r.strategy_a, r.strategy_b, a, b, done + 1, budget, tol)

calculate_nash_equilibrium(a, b, budget, tol) ==
    Iterate(Uniform(Len(a)), Uniform(Len(b)), a, b, 0, budget, tol)

\* The loop is running and its range has another element.
CanRound ==
    /\ pc \in {"Initialized", "Iterating"}
    /\ LoopContinues(rounds, max_iterations)

Round ==
    /\ CanRound
    /\ LET r == RoundBody(strategy_a, strategy_b, payoff_matrix_a, payoff_matrix_b)
           pa == Snapshot(strategy_a, r.strategy_a)
           pb == Snapshot(strategy_b, r.strategy_b)
       IN  /\ rounds' = rounds + 1
           /\ prev_strategy_a' = pa
           /\ prev_strategy_b' = pb
           /\ strategy_a' = r.strategy_a
           /\ strategy_b' = r.strategy_b
           /\ best_a' = r.best_a
           /\ best_b' = r.best_b
           /\ pc' = IF Raises(r.failed_at) THEN "Failed"
                    ELSE IF Converges(pa, pb, r.strategy_a, r.strategy_b, tolerance)
                         THEN "Converged"
                         ELSE "Iterating"
           /\ error' = IF Raises(r.failed_at) THEN "DimensionMismatch" ELSE error
    /\ steps' = steps + 1
    /\ UNCHANGED <<inputs, result, propagated, output>>

\* The range of the for loop is used up.
CanExhaust ==
    /\ pc \in {"Initialized", "Iterating"}
    /\ ~LoopContinues(rounds, max_iterations)

Exhaust ==
    /\ CanExhaust
    /\ pc' = "Exhausted"
    /\ steps' = steps + 1
    /\ UNCHANGED <<inputs, strategy_a, strategy_b, prev_strategy_a, prev_strategy_b,
                   best_a, best_b, rounds, result, error, propagated, output>>

CanReturn ==
    /\ pc \in {"Converged", "Exhausted"}
    /\ result = <<>>

Return ==
    /\ CanReturn
    /\ result' = <<strategy_a, strategy_b>>
    /\ steps' = steps + 1
    /\ UNCHANGED <<inputs, pc, strategy_a, strategy_b, prev_strategy_a, prev_strategy_b,
                   best_a, best_b, rounds, error, propagated, output>>

\* Nothing in calculate_nash_equilibrium catches the error of a direct call.
Propagate ==
    /\ pc = "Failed"
    /\ caller = "direct"
    /\ ~propagated
    /\ propagated' = TRUE
    /\ steps' = steps + 1
    /\ UNCHANGED <<inputs, pc, strategy_a, strategy_b, prev_strategy_a, prev_strategy_b,
                   best_a, best_b, rounds, result, error, output>>

\* ------------------------------------------------------------ main, again
MainPrint ==
    /\ caller = "main"
    /\ result # <<>>
    /\ output = <<>>
    /\ output' = <<Line("Nash Equilibrium Strategies:", <<>>),
                   Line("Player A's Strategy:", result[1]),
                   Line("Player B's Strategy:", result[2])>>
    /\ steps' = steps + 1
    /\ UNCHANGED <<inputs, pc, strategy_a, strategy_b, prev_strategy_a, prev_strategy_b,
                   best_a, best_b, rounds, result, error, propagated>>

\* main's handler also catches the ValueError of the matrix product.
MainExcept ==
    /\ caller = "main"
    /\ pc = "Failed"
    /\ output = <<>>
    /\ output' = <<MatmulMessage>>
    /\ steps' = steps + 1
    /\ UNCHANGED <<inputs, pc, strategy_a, strategy_b, prev_strategy_a, prev_strategy_b,
                   best_a, best_b, rounds, result, error, propagated>>

Next ==
    \/ MainReject
    \/ Call
    \/ Round
    \/ Exhaust
    \/ Return
    \/ Propagate
    \/ MainPrint
    \/ MainExcept

Spec == Init /\ [][Next]_vars

\* ================================================================= claims
IsSquare(m) == Len(m) = Len(m[1])

SquareMatching ==
    /\ Shape(payoff_matrix_a) = Shape(payoff_matrix_b)
    /\ IsSquare(payoff_matrix_a)

IsOneHot(v) ==
    /\ Cardinality({i \in 1..Len(v) : v[i] = Unit}) = 1
    /\ \A i \in 1..Len(v) : v[i] \in {0, Unit}

IsUniform(v) ==
    /\ Len(v) >= 1
    /\ \A i \in 1..Len(v) : v[i] = v[1]
    /\ Len(v) * v[1] = Unit

IsPD == payoff_matrix_a = PD_A /\ payoff_matrix_b = PD_B

IsMP == payoff_matrix_a = MP_A /\ payoff_matrix_b = MP_B

RoundDone == rounds >= 1 /\ pc \in {"Iterating", "Converged", "Exhausted"}

\* C1 (as claimed): on the example of main, with the default budget and tolerance,
\* the call leaves through the convergence check and returns [0,1] for player A
\* and [0,1] for player B.
C1_PDReturnsDefectDefect ==
    (/\ IsPD
     /\ max_iterations = DefaultMaxIterations
     /\ tolerance = DefaultTolerance
     /\ result # <<>>)
    => (/\ pc = "Converged"
        /\ result = <<OneHot(2, 1), OneHot(2, 1)>>)

\* C2: for square matrices of matching shape and a positive budget, the loop never
\* runs more than max_iterations rounds and the call terminates: a run takes at
\* most the entry, max_iterations rounds, the exit from the loop, the return and
\* main's print, and until the pair is returned the call has a next step to take
\* (the entry, a round, the exit from the loop or the return).
C2_TerminatesWithinBudget ==
    (SquareMatching /\ max_iterations >= 1)
    => (/\ rounds <= max_iterations
        /\ steps <= max_iterations + 4
        /\ pc \notin {"Failed", "Rejected"}
        /\ result = <<>> => CanCall \/ CanRound \/ CanExhaust \/ CanReturn)

C2_Witness ==
    /\ SquareMatching
    /\ max_iterations >= 2
    /\ pc = "Exhausted"
    /\ rounds = max_iterations
    /\ result # <<>>

\* C3: for square matrices of matching shape and a budget of at least one round,
\* both strategies are one-hot at the end of every round and in the returned pair;
\* a returned vector is uniform only if that player has a single action.
C3_OneHotAfterEveryRound ==
    (SquareMatching /\ max_iterations >= 1)
    => (/\ RoundDone => IsOneHot(strategy_a) /\ IsOneHot(strategy_b)
        /\ result # <<>> =>
             /\ IsOneHot(result[1]) /\ IsOneHot(result[2])
             /\ IsUniform(result[1]) => Len(payoff_matrix_a) = 1
             /\ IsUniform(result[2]) => Len(payoff_matrix_b) = 1)

C3_Witness ==
    /\ SquareMatching
    /\ Len(payoff_matrix_a) = 3
    /\ rounds >= 2
    /\ result # <<>>
    /\ IsOneHot(result[1])
    /\ ~IsUniform(result[2])

\* C4: on matching pennies, with the default tolerance and any positive budget, the
\* convergence check never passes, the loop runs exactly max_iterations rounds, the
\* call ends Exhausted and returns the one-hot pair of the final round.
C4_MatchingPenniesExhausts ==
    (IsMP /\ tolerance = DefaultTolerance /\ max_iterations >= 1)
    => (/\ pc # "Converged"
        /\ pc = "Exhausted" => rounds = max_iterations
        /\ result # <<>> =>
             /\ pc = "Exhausted"
             /\ result = <<strategy_a, strategy_b>>
             /\ IsOneHot(result[1]) /\ IsOneHot(result[2]))

C4_Witness ==
    /\ IsMP
    /\ tolerance = DefaultTolerance
    /\ max_iterations = DefaultMaxIterations
    /\ pc = "Exhausted"
    /\ rounds = DefaultMaxIterations
    /\ result = <<OneHot(2, 1), OneHot(2, 0)>>

\* i is the lowest index whose entry of v is the maximum of v.
IsLowestMaximizer(i, v) ==
    /\ i + 1 \in 1..Len(v)
    /\ \A j \in 1..Len(v) : v[j] <= v[i + 1]
    /\ \A j \in 1..i : v[j] < v[i + 1]

\* C5: best_response returns an index of maximal expected payoff, and among several
\* such indices the lowest: for A's response to the snapshot of B's strategy and
\* for B's response to A's new strategy.
C5_BestResponseLowestMaximizer ==
    /\ best_a # NoIndex =>
         IsLowestMaximizer(best_a, MatVec(payoff_matrix_a, prev_strategy_b))
    /\ best_b # NoIndex =>
         IsLowestMaximizer(best_b, MatVec(payoff_matrix_b, strategy_a))

C5_Witness ==
    /\ best_a = 0
    /\ best_b = 1
    /\ LET ea == MatVec(payoff_matrix_a, prev_strategy_b)
           eb == MatVec(payoff_matrix_b, strategy_a)
       IN  /\ Len(ea) = 3
           /\ ea[1] = ea[2] /\ ea[2] = ea[3]
           /\ eb[2] = eb[3] /\ eb[1] < eb[2]

\* C6 (as claimed): for two matrices of identical shape, square or not, and a
\* positive budget, the call raises no error.
C6_NoErrorOnIdenticalShapes ==
    (Shape(payoff_matrix_a) = Shape(payoff_matrix_b) /\ max_iterations >= 1)
    => (pc # "Failed" /\ error = "none")

\* C7: with 1x1 matrices both strategies are [1.0] from initialization on, the
\* first round passes the convergence check, and [1.0], [1.0] is returned.
C7_SingleAction ==
    (Shape(payoff_matrix_a) = <<1, 1>> /\ Shape(payoff_matrix_b) = <<1, 1>>)
    => (/\ pc # "Start" => strategy_a = <<Unit>> /\ strategy_b = <<Unit>>
        /\ rounds <= 1
        /\ rounds = 1 => pc = "Converged"
        /\ pc \notin {"Iterating", "Failed"}
        /\ result # <<>> => result = <<(<<Unit>>), (<<Unit>>)>>)

C7_Witness ==
    /\ Shape(payoff_matrix_a) = <<1, 1>>
    /\ Shape(payoff_matrix_b) = <<1, 1>>
    /\ tolerance = 0
    /\ pc = "Converged"
    /\ rounds = 1
    /\ result = <<(<<Unit>>), (<<Unit>>)>>

\* C8: in main, matrices of different shapes give the shape-mismatch message and
\* nothing else: calculate_nash_equilibrium is not entered, no strategy is printed
\* and no error leaves main.
C8_MainRejectsShapeMismatch ==
    (caller = "main" /\ Shape(payoff_matrix_a) # Shape(payoff_matrix_b))
    => (/\ pc \in {"Start", "Rejected"}
        /\ strategy_a = <<>> /\ strategy_b = <<>>
        /\ rounds = 0
        /\ result = <<>>
        /\ ~propagated
        /\ pc = "Start" => output = <<>> /\ error = "none"
        /\ pc = "Rejected" => output = <<ShapeMessage>> /\ error = "ShapeMismatch")

C8_Witness ==
    /\ caller = "main"
    /\ Shape(payoff_matrix_a) = <<2, 2>>
    /\ Shape(payoff_matrix_b) = <<3, 3>>
    /\ pc = "Rejected"
    /\ output = <<ShapeMessage>>

\* C10: at the end of every round strategy_a is the one-hot vector at A's best
\* response to B's strategy of the previous round, and strategy_b is the one-hot
\* vector at B's best response to that new strategy_a.
C10_SequentialUpdates ==
    RoundDone =>
        /\ strategy_a =
             OneHot(Len(payoff_matrix_a), best_response(prev_strategy_b, payoff_matrix_a))
        /\ strategy_b =
             OneHot(Len(payoff_matrix_b), best_response(strategy_a, payoff_matrix_b))

\* A round in which B's response to A's previous strategy would have been another.
C10_Witness ==
    /\ RoundDone
    /\ rounds >= 2
    /\ strategy_a # prev_strategy_a
    /\ best_response(prev_strategy_a, payoff_matrix_b) # best_b
    /\ strategy_b = OneHot(Len(payoff_matrix_b), best_b)

\* Every component of s is within tol of the component of p.
WithinAbs(p, s, tol) == \A i \in 1..Len(s) : Abs(s[i] - p[i]) <= tol

\* Every component of s is within tol + 1e-5 * |component of s| of that of p.
WithinAbsRel(p, s, tol) ==
    \A i \in 1..Len(s) : Abs(s[i] - p[i]) <= tol + Abs(s[i]) \div RtolDen

StrategiesKept ==
    /\ strategy_a' = strategy_a
    /\ strategy_b' = strategy_b
    /\ rounds' = rounds

\* The iterator's state machine, for a given reading W of "within tolerance".
MachineState(W(_, _, _)) ==
    /\ pc \in {"Start", "Initialized", "Iterating", "Converged", "Exhausted"}
    /\ pc \in {"Start", "Initialized"} => rounds = 0
    /\ pc = "Iterating" =>
         /\ rounds >= 1 /\ rounds <= max_iterations
         /\ ~(W(prev_strategy_a, strategy_a, tolerance)
              /\ W(prev_strategy_b, strategy_b, tolerance))
    /\ pc = "Converged" =>
         /\ rounds >= 1 /\ rounds <= max_iterations
         /\ W(prev_strategy_a, strategy_a, tolerance)
         /\ W(prev_strategy_b, strategy_b, tolerance)
    /\ pc = "Exhausted" =>
         /\ rounds = max_iterations
         /\ ~(W(prev_strategy_a, strategy_a, tolerance)
              /\ W(prev_strategy_b, strategy_b, tolerance))
    /\ result # <<>> =>
         /\ pc \in {"Converged", "Exhausted"}
         /\ result = <<strategy_a, strategy_b>>

MachineStep(W(_, _, _)) ==
    /\ rounds' # rounds =>
         /\ pc \in {"Initialized", "Iterating"}
         /\ rounds' = rounds + 1
         /\ pc' = IF W(strategy_a, strategy_a', tolerance)
                     /\ W(strategy_b, strategy_b', tolerance)
                  THEN "Converged" ELSE "Iterating"
    /\ (pc' = "Exhausted" /\ pc # "Exhausted") =>
         /\ pc = "Iterating"
         /\ rounds = max_iterations
         /\ StrategiesKept
    /\ pc \in {"Converged", "Exhausted"} => pc' = pc /\ StrategiesKept
    /\ result' # result => result' = <<strategy_a, strategy_b>> /\ pc' = pc

\* C11 (as claimed): Initialized -> Iterating -> {Converged, Exhausted}; a round ends
\* the loop exactly when both strategies are component-wise within tolerance of
\* their snapshots; otherwise the loop goes on until the round count reaches
\* max_iterations; nothing else ends it, both terminal states return the current
\* strategies and no round runs after them.
C11_MachineAbsoluteTolerance ==
    /\ []((SquareMatching /\ max_iterations >= 1) => MachineState(WithinAbs))
    /\ [][(SquareMatching /\ max_iterations >= 1) => MachineStep(WithinAbs)]_vars

\* C11 (amended): the same state machine, where "within tolerance" is numpy's
\* allclose: |new - snapshot| <= tolerance + 1e-5 * |new| in every component.
C11_MachineAllClose ==
    /\ []((SquareMatching /\ max_iterations >= 1) => MachineState(WithinAbsRel))
    /\ [][(SquareMatching /\ max_iterations >= 1) => MachineStep(WithinAbsRel)]_vars

\* A first round that passes numpy's check although a component moved by more
\* than the tolerance, and the pair returned from Converged.
C11_Witness ==
    /\ SquareMatching
    /\ pc = "Converged"
    /\ rounds = 1
    /\ max_iterations >= 2
    /\ ~WithinAbs(prev_strategy_a, strategy_a, tolerance)
    /\ result = <<strategy_a, strategy_b>>

\* Action i of A and action j of B are each the best response to the other.
IsMutualBestResponse(i, j) ==
    /\ IsLowestMaximizer(i, MatVec(payoff_matrix_a, OneHot(Len(payoff_matrix_b), j)))
    /\ IsLowestMaximizer(j, MatVec(payoff_matrix_b, OneHot(Len(payoff_matrix_a), i)))

HasPureEquilibrium ==
    \E i \in 0..(Len(payoff_matrix_a) - 1), j \in 0..(Len(payoff_matrix_b) - 1) :
        IsMutualBestResponse(i, j)

ToleranceBelowHalf == 2 * tolerance < Unit

\* C12: for a square game of matching shape without a pure-strategy equilibrium,
\* tolerance < 1/2 and a positive budget, no round passes the convergence check:
\* the strategies change in every round and the call runs exactly max_iterations
\* rounds before it returns.
C12_NoEquilibriumNeverConverges ==
    (SquareMatching /\ ~HasPureEquilibrium /\ ToleranceBelowHalf /\ max_iterations >= 1)
    => (/\ pc # "Converged"
        /\ RoundDone => strategy_a # prev_strategy_a /\ strategy_b # prev_strategy_b
        /\ pc = "Exhausted" => rounds = max_iterations
        /\ result # <<>> => pc = "Exhausted" /\ rounds = max_iterations)

C12_Witness ==
    /\ SquareMatching
    /\ ~HasPureEquilibrium
    /\ ~IsMP
    /\ caller = "direct"
    /\ tolerance = Unit \div 2 - 1
    /\ max_iterations = MaxIter
    /\ rounds = MaxIter
    /\ pc = "Exhausted"
    /\ result = <<strategy_a, strategy_b>>

\* The product payoff_matrix @ strategy is undefined.
Mismatch(strategy, payoff_matrix) == Len(strategy) # Len(payoff_matrix[1])

\* C13: a best_response whose strategy length differs from the matrix's column
\* count raises the dimension error and returns no index; the round it happens in
\* ends the call with that error, which calculate_nash_equilibrium passes on to
\* its caller, and no pair is ever returned.
C13_DimensionErrorPropagates ==
    /\ (rounds >= 1 /\ Mismatch(prev_strategy_b, payoff_matrix_a)) =>
         /\ pc = "Failed" /\ error = "DimensionMismatch"
         /\ rounds = 1
         /\ best_a = NoIndex /\ best_b = NoIndex
         /\ strategy_a = prev_strategy_a /\ strategy_b = prev_strategy_b
    /\ (rounds >= 1 /\ ~Mismatch(prev_strategy_b, payoff_matrix_a)
          /\ Mismatch(strategy_a, payoff_matrix_b)) =>
         /\ pc = "Failed" /\ error = "DimensionMismatch"
         /\ rounds = 1
         /\ best_a # NoIndex /\ best_b = NoIndex
         /\ strategy_b = prev_strategy_b
    /\ pc = "Failed" =>
         /\ result = <<>>
         /\ output \in {<<>>, <<MatmulMessage>>}
         /\ Mismatch(prev_strategy_b, payoff_matrix_a) \/ Mismatch(strategy_a, payoff_matrix_b)
    /\ propagated => pc = "Failed" /\ caller = "direct"
    /\ (pc = "Failed" /\ caller = "direct" /\ steps >= 3) => propagated

\* B's product fails after A's response was taken, and the error has left the call.
C13_Witness ==
    /\ caller = "direct"
    /\ pc = "Failed"
    /\ propagated
    /\ best_a # NoIndex
    /\ best_b = NoIndex
    /\ IsOneHot(strategy_a)
    /\ result = <<>>

\* What C14 says of one player: n actions, snapshot p, strategy s, returned vector v.
FirstRoundMoves(n, p, s, v) ==
    (n >= 2 /\ ToleranceBelowHalf) =>
        /\ (rounds = 1 /\ RoundDone) =>
             /\ IsUniform(p)
             /\ IsOneHot(s)
             /\ s # p
             /\ pc # "Converged"
        /\ pc = "Converged" => rounds >= 2
        /\ (max_iterations >= 1 /\ result # <<>>) => ~IsUniform(v) /\ IsOneHot(v)

\* C14: for a player with at least two actions and tolerance < 1/2, the first round
\* takes that player's strategy from uniform to one-hot, so the first round does
\* not pass the convergence check; a run that ends Converged has run at least two
\* rounds, and the vector returned for that player (budget at least 1) is not uniform.
C14_FirstRoundNeverConverges ==
    /\ FirstRoundMoves(Len(payoff_matrix_a), prev_strategy_a, strategy_a,
                       IF result = <<>> THEN <<>> ELSE result[1])
    /\ FirstRoundMoves(Len(payoff_matrix_b), prev_strategy_b, strategy_b,
                       IF result = <<>> THEN <<>> ELSE result[2])

C14_Witness ==
    /\ Len(payoff_matrix_a) = 2
    /\ Len(payoff_matrix_b) = 2
    /\ tolerance = Unit \div 2 - 1
    /\ pc = "Converged"
    /\ rounds = 2
    /\ result = <<strategy_a, strategy_b>>

\* The pair <<sa, sb>> is a pure-strategy equilibrium under best_response.
IsEquilibriumPair(sa, sb) ==
    /\ sa = OneHot(Len(payoff_matrix_a), best_response(sb, payoff_matrix_a))
    /\ sb = OneHot(Len(payoff_matrix_b), best_response(sa, payoff_matrix_b))
    /\ \E i \in 0..(Len(payoff_matrix_a) - 1), j \in 0..(Len(payoff_matrix_b) - 1) :
         /\ IsMutualBestResponse(i, j)
         /\ sa = OneHot(Len(payoff_matrix_a), i)
         /\ sb = OneHot(Len(payoff_matrix_b), j)

\* C15: for square matrices of matching shape and tolerance < 1/2, a call that
\* leaves through the convergence check holds, and returns, a pair in which each
\* strategy is the one-hot vector at the best response to the other.
C15_ConvergedIsEquilibrium ==
    (SquareMatching /\ ToleranceBelowHalf /\ pc = "Converged")
    => (/\ IsEquilibriumPair(strategy_a, strategy_b)
        /\ result # <<>> => IsEquilibriumPair(result[1], result[2]))

C15_Witness ==
    /\ SquareMatching
    /\ Len(payoff_matrix_a) = 3
    /\ ToleranceBelowHalf
    /\ pc = "Converged"
    /\ rounds >= 2
    /\ result = <<OneHot(3, 0), OneHot(3, 1)>>

\* The index of the unit entry of a one-hot vector.
UnitIndex(v) == (CHOOSE i \in 1..Len(v) : v[i] = Unit) - 1

\* sb is one-hot at the lowest index of maximal expected payoff of B against sa.
IsResponseOfB(sa, sb) ==
    /\ IsOneHot(sb)
    /\ Len(sb) = Len(payoff_matrix_b)
    /\ IsLowestMaximizer(UnitIndex(sb), MatVec(payoff_matrix_b, sa))

\* C16: at the end of every round, and in every pair returned after at least one
\* round (the Exhausted exit included), strategy_b is the one-hot vector at B's best
\* response to strategy_a.
C16_BRespondsToReturnedA ==
    /\ RoundDone => IsResponseOfB(strategy_a, strategy_b)
    /\ (result # <<>> /\ rounds >= 1) => IsResponseOfB(result[1], result[2])

\* An Exhausted return in which strategy_a is not A's best response to strategy_b.
C16_Witness ==
    /\ pc = "Exhausted"
    /\ rounds >= 2
    /\ result = <<strategy_a, strategy_b>>
    /\ IsResponseOfB(result[1], result[2])
    /\ strategy_a # OneHot(Len(payoff_matrix_a), best_response(strategy_b, payoff_matrix_a))

\* The budgets a second call is given: every budget from k up to one more than the
\* model's largest, and the default.
BudgetsFrom(k) == (k..(MaxIter + 1)) \cup {DefaultMaxIterations}

\* C17: if a call with budget max_iterations leaves through the convergence check
\* after k rounds, the call on the same matrices and tolerance with any budget of
\* at least k also leaves through the convergence check after exactly k rounds
\* and returns the same pair.
C17_BudgetIndependentOnceConverged ==
    (pc = "Converged" /\ result # <<>>)
    => \A budget \in BudgetsFrom(rounds) :
         calculate_nash_equilibrium(payoff_matrix_a, payoff_matrix_b, budget, tolerance)
           = [exit |-> "Converged", rounds |-> rounds, result |-> result]

\* A call that converged in a round before its last, compared with the call whose
\* budget is exactly that round count.
C17_Witness ==
    /\ pc = "Converged"
    /\ result # <<>>
    /\ rounds = 2
    /\ max_iterations = MaxIter
    /\ rounds < max_iterations
    /\ calculate_nash_equilibrium(payoff_matrix_a, payoff_matrix_b, 2, tolerance).result
         = result

====
